---- MODULE Spec2Model ----
(***************************************************************************)
(* arxiv2kindle: main() fetches a paper's LaTeX source, rewrites the main  *)
(* file for a small page (change_size), strips \twocolumn from style files *)
(* (make_single_column), runs pdflatex three times (compile_tex), rotates  *)
(* the PDF in landscape mode (rotate_pdf) and delivers it.                 *)
(*                                                                         *)
(* Text.  A file is a sequence of lines and a line is a sequence of        *)
(* tokens.  A token is a maximal run of word characters ("12pt", "draft"), *)
(* a LaTeX control word ("\\documentclass"), or a piece of punctuation     *)
(* ("[", ",", "]").  Every line ends with the token "\n", as the lines of  *)
(* readlines() do.  The regular expressions of change_size are matched on  *)
(* tokens: \b\d+pt\b, \b\w+column\b and \b\w+paper\b can only match a      *)
(* whole word, and the figure patterns a run of consecutive tokens.        *)
(***************************************************************************)
EXTENDS Integers, Sequences, FiniteSets, TLC

\* ------------------------------------------------------------------ bounds
\* longest option list of a \documentclass line that is enumerated
MaxOpts == 3
\* most figures on one line that are enumerated
MaxFigs == 2
\* most comment / blank lines put before the \documentclass line
MaxPre == 2

\* ------------------------------------------------------- words and numbers
\* words that match \d+pt
FontSizeWords == {"12pt"}
\* words that match \w+column
ColumnWords == {"twocolumn"}
\* words that match \w+paper
PaperWords == {"a4paper"}
\* class options that match none of the three patterns
OtherWords == {"draft", "final"}

\* tokens that match [.\d]+
NumTokens == {"0.4", "0.9", "2", "1.2.3", "0.5", "0.2", "0.45", "1.0"}

\* float(s) for the tokens of NumTokens, in hundredths; -1 where float(s)
\* raises ValueError
FloatOf(s) ==
  CASE s = "0.4"  -> 40
    [] s = "0.9"  -> 90
    [] s = "2"    -> 200
    [] s = "0.5"  -> 50
    [] s = "0.2"  -> 20
    [] s = "0.45" -> 45
    [] s = "1.0"  -> 100
    [] OTHER      -> -1

\* str(x) of the float x, given in hundredths, as an f-string formats it
ReprOf(x) ==
  CASE x = 20  -> "0.2"
    [] x = 45  -> "0.45"
    [] x = 100 -> "1.0"
    [] x = 25  -> "0.25"
    [] x = 10  -> "0.1"
    [] x = 50  -> "0.5"
    [] OTHER   -> "?"

\* ---------------------------------------------------------- list helpers
\* the tokens of line at the positions that are not in drop, in order
RemoveAt(line, drop) ==
  LET F[i \in 0..Len(line)] ==
        IF i = 0 THEN <<>>
        ELSE IF i \in drop THEN F[i-1] ELSE Append(F[i-1], line[i])
  IN F[Len(line)]

\* list.insert(idx, x) with a 0-based idx not beyond the end
InsertAt(s, idx, x) == SubSeq(s, 1, idx) \o <<x>> \o SubSeq(s, idx + 1, Len(s))

\* s with its i-th element (1-based) replaced by x
ReplaceAt(s, i, x) == [s EXCEPT ![i] = x]

\* the numbers of 1..n that are in the set at, in increasing order
Ascending(n, at) ==
  LET F[i \in 0..n] ==
        IF i = 0 THEN <<>>
        ELSE IF i \in at THEN Append(F[i-1], i) ELSE F[i-1]
  IN F[n]

\* tok occurs in line
Contains(line, tok) == \E i \in 1..Len(line) : line[i] = tok

\* -------------------------------------------- change_size: line 99 to 113
\* '\\documentclass' in line
HasDocumentClass(line) == Contains(line, "\\documentclass")

\* line[0] != '%' and len(line.strip()) > 0
KeepLine(line) ==
  /\ line[1] # "%"
  /\ \E i \in 1..Len(line) : line[i] \notin {" ", "\n"}

\* re.sub(r'\b\d+pt\b', '', line)
StripFontSize(line) == RemoveAt(line, {i \in 1..Len(line) : line[i] \in FontSizeWords})

\* re.sub(r'\b\w+column\b', '', line)
StripColumn(line) == RemoveAt(line, {i \in 1..Len(line) : line[i] \in ColumnWords})

\* re.sub(r'\b\w+paper\b', '', line)
StripPaper(line) == RemoveAt(line, {i \in 1..Len(line) : line[i] \in PaperWords})

\* re.sub(r'(?<=\[),', '', line): every comma whose previous character is '['
StripStartComma(line) ==
  RemoveAt(line, {i \in 2..Len(line) : line[i] = "," /\ line[i-1] = "["})

\* re.sub(r',(?=[\],])', '', line): every comma whose next character is ']'
\* or ','
StripEndComma(line) ==
  RemoveAt(line, {i \in 1..(Len(line) - 1) : line[i] = "," /\ line[i+1] \in {"]", ","}})

\* the five substitutions applied to src[dclass_idx]
StripClassOptions(line) ==
  StripEndComma(StripStartComma(StripPaper(StripColumn(StripFontSize(line)))))

\* -------------------------------------------- change_size: line 115 to 127
\* line.startswith(r'\begin{document}')
IsBeginDocument(line) == line[1] = "\\begin{document}"

\* ",".join(k+"="+v for k, v in geom_settings.items()), as tokens
RECURSIVE JoinSettings(_)
JoinSettings(geom) ==
  IF Len(geom) = 0 THEN <<>>
  ELSE IF Len(geom) = 1 THEN <<geom[1][1], "=", geom[1][2]>>
  ELSE <<geom[1][1], "=", geom[1][2], ",">> \o JoinSettings(Tail(geom))

\* geom_settings_str, with ",landscape" appended when landscape is set
GeomSettingsStr(geom, landscape) ==
  JoinSettings(geom) \o (IF landscape THEN <<",", "landscape">> ELSE <<>>)

\* f'\\usepackage[{geom_settings_str}]{{geometry}}\n'
GeometryLine(geom, landscape) ==
  <<"\\usepackage", "[">> \o GeomSettingsStr(geom, landscape)
    \o <<"]", "{", "geometry", "}", "\n">>

TimesLine == <<"\\usepackage", "{", "times", "}", "\n">>
PagestyleLine == <<"\\pagestyle", "{", "empty", "}", "\n">>
BreqnLine == <<"\\usepackage", "{", "breqn", "}", "\n">>
PdflscapeLine == <<"\\usepackage", "{", "pdflscape", "}", "\n">>

\* (mutant) every line inserted below the one before it
InsertPreambleBelow(src, b0, geom, landscape) ==
  LET s1 == InsertAt(src, b0, GeometryLine(geom, landscape))
      s2 == InsertAt(s1, b0 + 1, TimesLine)
      s3 == InsertAt(s2, b0 + 2, PagestyleLine)
      s4 == InsertAt(s3, b0 + 3, BreqnLine)
  IN IF landscape THEN InsertAt(s4, b0 + 4, PdflscapeLine) ELSE s4

\* the src.insert calls: each inserts at the same index b0 (0-based), so a
\* later insert lands above the earlier ones
InsertPreamble(src, b0, geom, landscape) ==
  LET s1 == InsertAt(src, b0, GeometryLine(geom, landscape))
      s2 == InsertAt(s1, b0, TimesLine)
      s3 == InsertAt(s2, b0, PagestyleLine)
      s4 == InsertAt(s3, b0, BreqnLine)
  IN IF landscape THEN InsertAt(s4, b0, PdflscapeLine) ELSE s4

\* -------------------------------------------- change_size: line 129 to 155
\* \\includegraphics\[width=([.\d]+)\\(line|text)width\] matches at token i
WidthMatchAt(line, i) ==
  /\ i + 5 <= Len(line)
  /\ line[i] = "\\includegraphics"
  /\ line[i+1] = "["
  /\ line[i+2] = "width="
  /\ line[i+3] \in NumTokens
  /\ line[i+4] \in {"\\linewidth", "\\textwidth"}
  /\ line[i+5] = "]"

\* '\\includegraphics{' occurs at token i
BareMatchAt(line, i) ==
  /\ i + 1 <= Len(line)
  /\ line[i] = "\\includegraphics"
  /\ line[i+1] = "{"

\* \\includegraphics\[scale=([.\d]+)\] matches at token i
ScaleMatchAt(line, i) ==
  /\ i + 4 <= Len(line)
  /\ line[i] = "\\includegraphics"
  /\ line[i+1] = "["
  /\ line[i+2] = "scale="
  /\ line[i+3] \in NumTokens
  /\ line[i+4] = "]"

\* the pattern named kind ("width", "bare" or "scale") matches at token i
MatchAt(kind, line, i) ==
  CASE kind = "width" -> WidthMatchAt(line, i)
    [] kind = "bare"  -> BareMatchAt(line, i)
    [] OTHER          -> ScaleMatchAt(line, i)

\* re.search: the leftmost position where the pattern matches, 0 when there
\* is none
FirstMatch(kind, line) ==
  IF \E i \in 1..Len(line) : MatchAt(kind, line, i)
  THEN CHOOSE i \in 1..Len(line) :
         MatchAt(kind, line, i) /\ \A j \in 1..(i-1) : ~MatchAt(kind, line, j)
  ELSE 0

\* the replacement template of line 137, expanded by re.sub
WidthRepl(mul) ==
  <<"\\includegraphics", "[", "width=", mul, "\\textwidth", ",",
    "height=", mul, "\\textheight", ",", "keepaspectratio", "]">>

\* the replacement template of line 144, expanded by re.sub
BareRepl == <<"\\includegraphics", "[", "scale=", "0.5", "]", "{">>

\* the replacement template of line 153, expanded by re.sub: \\ gives a
\* backslash, while \[ and \] are no escapes of a template and stay as written
ScaleRepl(half) == <<"\\includegraphics", "\\[", "scale=", half, "\\]">>

\* re.sub(pattern, repl, line): every non-overlapping match, left to right,
\* replaced by the same repl; n is the number of tokens of one match
RECURSIVE SubAll(_, _, _, _, _)
SubAll(kind, line, i, n, repl) ==
  IF i > Len(line) THEN <<>>
  ELSE IF MatchAt(kind, line, i) THEN repl \o SubAll(kind, line, i + n, n, repl)
  ELSE <<line[i]>> \o SubAll(kind, line, i + 1, n, repl)

\* one iteration of the loop of line 130: the new src[i], or ValueError
ShrinkFigures(line) ==
  LET w == FirstMatch("width", line)
      s == FirstMatch("scale", line)
  IN IF w > 0
     THEN [err |-> "", line |-> SubAll("width", line, 1, 6, WidthRepl(line[w+3]))]
     ELSE IF \E i \in 1..Len(line) : BareMatchAt(line, i)
     THEN [err |-> "", line |-> SubAll("bare", line, 1, 2, BareRepl)]
     ELSE IF s > 0
     THEN IF FloatOf(line[s+3]) < 0
          THEN [err |-> "ValueError", line |-> line]
          ELSE [err |-> "",
                line |-> SubAll("scale", line, 1, 5,
                                ScaleRepl(ReprOf(FloatOf(line[s+3]) \div 2)))]
     ELSE [err |-> "", line |-> line]

\* -------------------------------------------- change_size: line 157 to 162
\* re.search(r'\$.+\$', line)
HasInlineMath(line) ==
  \E i, j \in 1..Len(line) : line[i] = "$" /\ line[j] = "$" /\ j >= i + 2

\* one iteration of the loop of line 158
AllowBreak(line) == IF HasInlineMath(line) THEN <<"\\sloppy ">> \o line ELSE line

\* -------------------------------------------- change_size: line 96 to 162
\* the list src that change_size has built when it reaches os.rename, or
\* the exception that ends it before
ChangeSize(lines, geom, landscape) ==
  LET dpos == Ascending(Len(lines), {i \in 1..Len(lines) : HasDocumentClass(lines[i])})
  IN IF Len(dpos) = 0 THEN [err |-> "StopIteration", src |-> <<>>]
     ELSE
  LET dclass_idx == dpos[1] - 1
      filtered == SelectSeq(lines, KeepLine)
  IN IF dclass_idx >= Len(filtered) THEN [err |-> "IndexError", src |-> <<>>]
     ELSE
  LET stripped == ReplaceAt(filtered, dclass_idx + 1,
                            StripClassOptions(filtered[dclass_idx + 1]))
      begindocs == Ascending(Len(stripped),
                             {i \in 1..Len(stripped) : IsBeginDocument(stripped[i])})
  IN IF Len(begindocs) # 1 THEN [err |-> "AssertionError: len(begindocs) == 1", src |-> <<>>]
     ELSE
  LET inserted == InsertPreamble(stripped, begindocs[1] - 1, geom, landscape)
      shrunk == [i \in 1..Len(inserted) |-> ShrinkFigures(inserted[i])]
  IN IF \E i \in 1..Len(inserted) : shrunk[i].err # ""
     THEN [err |-> "ValueError", src |-> <<>>]
     ELSE [err |-> "",
           src |-> [i \in 1..Len(inserted) |-> AllowBreak(shrunk[i].line)]]

\* ------------------------------------------------------------ file system
\* A file name is <<stem, suffix>>; a file system maps the names of the
\* files that exist to their content.
NoFiles == [n \in {} |-> <<>>]

\* Path.with_suffix(suffix)
WithSuffix(name, suffix) == <<name[1], suffix>>

\* open(name, 'wt').writelines(content), or a tool writing its output file
WriteFile(fs, name, content) ==
  [n \in DOMAIN fs \cup {name} |-> IF n = name THEN content ELSE fs[n]]

\* (mutant) the rename left out
RenameFileSkipped(fs, from, to) == fs

\* os.rename(from, to), for a file from that exists
RenameFile(fs, from, to) ==
  [n \in (DOMAIN fs \ {from}) \cup {to} |-> IF n = to THEN fs[from] ELSE fs[n]]

\* work_dir.glob('*' + suffix)
Glob(fs, suffix) == {n \in DOMAIN fs : n[2] = suffix}

\* ------------------------------------------ make_single_column: line 186 to 196
\* line.strip()
RECURSIVE Strip(_)
Strip(line) ==
  IF Len(line) = 0 THEN line
  ELSE IF Head(line) \in {" ", "\n"} THEN Strip(Tail(line))
  ELSE IF line[Len(line)] \in {" ", "\n"} THEN Strip(SubSeq(line, 1, Len(line) - 1))
  ELSE line

\* out_src: the lines whose stripped text is not \twocolumn
DropTwoColumn(lines) == SelectSeq(lines, LAMBDA l : Strip(l) # <<"\\twocolumn">>)

\* every *.sty file of the work directory rewritten
MakeSingleColumnFs(fs) ==
  [n \in DOMAIN fs |-> IF n \in Glob(fs, ".sty") THEN DropTwoColumn(fs[n]) ELSE fs[n]]

\* ----------------------------------------------------- main: line 209 to 233
\* the number of pdflatex passes of compile_tex
NumPasses == 3
\* the argparse defaults of --width and --height
DefaultWidth == 4
DefaultHeight == 6

\* f'{x}in' for the default sizes, f'{margin}in' for the default margin
InchesOf(x) == CASE x = 4 -> "4in" [] x = 6 -> "6in" [] OTHER -> "?in"
MarginIn == "0.2in"

\* geom_settings of main, after the swap of width and height in landscape
GeomSettings(landscape) ==
  LET width == IF landscape THEN DefaultHeight ELSE DefaultWidth
      height == IF landscape THEN DefaultWidth ELSE DefaultHeight
  IN << <<"paperwidth", InchesOf(width)>>,
        <<"paperheight", InchesOf(height)>>,
        <<"margin", MarginIn>> >>

\* (mutant) rotate_pdf called whatever the mode
AfterCompileAlwaysRotate(landscape) == "rotate_pdf"

\* where main goes after compile_tex: rotate_pdf only in landscape mode
AfterCompile(landscape) == IF landscape THEN "rotate_pdf" ELSE "deliver"

\* (mutant) a pass that fails ends the run, as subprocess.run(check=True) would
CompileLoopPcChecked(n, rc, landscape) ==
  IF rc # 0 THEN "error"
  ELSE IF n < 3 THEN "compile_tex"
  ELSE IF landscape THEN "rotate_pdf" ELSE "deliver"

\* compile_tex: after the n-th pass, which ended with status rc, the loop
\* goes on until NumPasses passes have run; rc is not looked at
CompileLoopPc(n, rc, landscape) ==
  IF n < NumPasses THEN "compile_tex" ELSE AfterCompile(landscape)

\* the title of the paper record and the content of the PDF files
Title == "Title"
CompiledPdf == << <<"%PDF">> >>
RotatedPdf == << <<"%PDF", "rotated">> >>

\* ------------------------------------------------------------- input text
\* every sequence over S of length at most n
SeqsUpTo(S, n) == UNION {[1..k -> S] : k \in 0..n}

\* the elements of a sequence of sequences, one after the other
RECURSIVE Flatten(_)
Flatten(ss) == IF Len(ss) = 0 THEN <<>> ELSE Head(ss) \o Flatten(Tail(ss))

\* the options of opts separated by commas
RECURSIVE JoinOpts(_)
JoinOpts(opts) ==
  IF Len(opts) = 0 THEN <<>>
  ELSE IF Len(opts) = 1 THEN <<opts[1]>>
  ELSE <<opts[1], ",">> \o JoinOpts(Tail(opts))

OptWords == FontSizeWords \cup ColumnWords \cup PaperWords \cup OtherWords
\* option lists without a repeated option
OptLists == {opts \in SeqsUpTo(OptWords, MaxOpts) :
               \A i, j \in 1..Len(opts) : opts[i] = opts[j] => i = j}

DclassLine(opts) ==
  <<"\\documentclass", "[">> \o JoinOpts(opts) \o <<"]", "{", "article", "}", "\n">>
CommentLine == <<"%", "c", "\n">>
BlankLine == <<"\n">>
PkgLine == <<"\\usepackage", "[", "a4paper", "]", "{", "geometry", "}", "\n">>
BeginLine == <<"\\begin{document}", "\n">>
MathLine == <<"text", " ", "$", "x+1", "$", "\n">>
TextLine == <<"text", "\n">>
EndLine == <<"\\end{document}", "\n">>

WidthFig(num, unit) ==
  <<"\\includegraphics", "[", "width=", num, unit, "]", "{", "fig", "}">>
ScaleFig(num) == <<"\\includegraphics", "[", "scale=", num, "]", "{", "fig", "}">>
BareFig == <<"\\includegraphics", "{", "fig", "}">>
FigKinds ==
  {WidthFig(n, u) : n \in {"0.9", "0.4"}, u \in {"\\linewidth", "\\textwidth"}}
    \cup {ScaleFig(n) : n \in {"0.4", "2", "1.2.3"}}
    \cup {BareFig}
FigLine(figs) == Flatten(figs) \o <<"\n">>
FigLines == {FigLine(figs) : figs \in SeqsUpTo(FigKinds, MaxFigs) \ {<<>>}}

PreLines == SeqsUpTo({CommentLine, BlankLine}, MaxPre)

\* main files for change_size: the class options and the lines before the
\* class line vary in the first family, the figures and the number of
\* \begin{document} lines in the second
OptionFiles ==
  {pre \o <<DclassLine(opts), PkgLine, BeginLine, MathLine, EndLine>> :
     pre \in PreLines, opts \in OptLists}
FigureFiles ==
  {<<DclassLine(<<"12pt">>)>> \o [i \in 1..k |-> BeginLine] \o <<fl, TextLine, EndLine>> :
     k \in 0..2, fl \in FigLines}
ShortFiles == {<<CommentLine, DclassLine(<<"12pt">>)>>}
RewriteFiles == OptionFiles \cup FigureFiles \cup ShortFiles

\* main files for a whole run of main
MainFiles ==
  { <<DclassLine(<<"12pt", "twocolumn">>), BeginLine,
      FigLine(<<ScaleFig("0.4")>>), MathLine, EndLine>>,
    <<DclassLine(<<"12pt">>), TextLine, EndLine>>,
    <<DclassLine(<<"12pt">>), BeginLine, BeginLine, EndLine>>,
    <<CommentLine, DclassLine(<<"12pt">>)>>,
    <<DclassLine(<<>>), BeginLine, FigLine(<<ScaleFig("1.2.3")>>), EndLine>> }

SectionFile == <<TextLine, MathLine>>
StyleFile ==
  << <<"\\twocolumn", "\n">>, <<" ", "\\twocolumn", " ", "\n">>,
     <<"\\twocolumnsomething", "\n">>, <<"\\twocolumn", " ", "x", "\n">> >>
TarFile == << <<"tar">> >>

ATex == <<"a", ".tex">>
BTex == <<"b", ".tex">>
SSty == <<"s", ".sty">>
TarGz == <<"src", ".tar.gz">>

\* the work directory after extractall(), for the archives that are tried:
\* one main file (a.tex or b.tex), none, two
Trees ==
  {[n \in {TarGz, ATex, BTex, SSty} |->
      CASE n = ATex -> m [] n = BTex -> SectionFile
        [] n = SSty -> StyleFile [] OTHER -> TarFile] : m \in MainFiles}
  \cup
  {[n \in {TarGz, ATex, BTex} |->
      CASE n = BTex -> m [] n = ATex -> SectionFile [] OTHER -> TarFile] : m \in MainFiles}
  \cup
  {[n \in {TarGz, BTex} |-> IF n = BTex THEN SectionFile ELSE TarFile]}
  \cup
  {[n \in {TarGz, ATex, BTex} |->
      IF n = TarGz THEN TarFile ELSE <<DclassLine(<<>>), BeginLine, EndLine>>]}

\* what running a tool with --version can give: it cannot be started
\* (FileNotFoundError), it fails with status 1 and prints nothing on its
\* standard output, or it exits with status 0 after printing its version
\* text there (or nothing)
ToolRuns(banner) ==
  {[ran |-> FALSE, rc |-> 1, out |-> <<>>], [ran |-> TRUE, rc |-> 1, out |-> <<>>]}
    \cup [ran : {TRUE}, rc : {0}, out : {<<>>, << << <<banner>> >> >>}]

Dests == {"-", "out", "out/paper.pdf"}

\* ------------------------------------------------------------------ state
VARIABLES
  pc,         \* where main is: the stage to run next, "done" or "error"
  err,        \* the exception that ended the run, "" while there is none
  landscape,  \* the landscape argument of main
  dest,       \* the dest argument of main
  destIsDir,  \* dest.is_dir(): whether dest names an existing directory
  files,      \* the work directory: file name -> content
  main_file,  \* the main file found by download
  src,        \* the list src of change_size between os.rename and the write
  outfs,      \* the files moved out of the work directory: path -> content
  stdout,     \* what has been written to the standard output of the run
  calls,      \* the functions main has called, in order
  procs,      \* the external tools that were run, in order, with exit status
  orig        \* the content of the main file as download left it

vars == <<pc, err, landscape, dest, destIsDir, files, main_file, src, outfs,
          stdout, calls, procs, orig>>

NoMain == <<"", "">>

Init ==
  /\ pc = "check_prerec"
  /\ err = ""
  /\ landscape \in BOOLEAN
  /\ dest \in Dests
  /\ destIsDir \in BOOLEAN
  /\ files = NoFiles
  /\ main_file = NoMain
  /\ src = <<>>
  /\ outfs = NoFiles
  /\ stdout = <<>>
  /\ calls = <<>>
  /\ procs = <<>>
  /\ orig = <<>>

\* an exception leaves main: the run ends
Raise(e) == pc' = "error" /\ err' = e

\* ----------------------------------------------- check_prerec: line 199 to 206
\* Both tools are run with stdout=None: the child inherits the standard
\* output of the run, and what it prints there is part of the run's output.
CheckPrerec ==
  /\ pc = "check_prerec"
  /\ calls' = Append(calls, "check_prerec")
  /\ \E p \in ToolRuns("pdflatex --version output"),
        q \in ToolRuns("pdftk --version output") :
       LET p_rec == [cmd |-> "pdflatex --version", rc |-> p.rc]
           q_rec == [cmd |-> "pdftk --version", rc |-> q.rc]
       IN IF ~p.ran
          THEN /\ Raise("FileNotFoundError: pdflatex")
               /\ UNCHANGED <<stdout, procs>>
          ELSE IF p.rc # 0
          THEN /\ Raise("no pdflatex found")
               /\ stdout' = stdout \o p.out
               /\ procs' = Append(procs, p_rec)
          ELSE IF ~landscape
          THEN /\ pc' = "download"
               /\ stdout' = stdout \o p.out
               /\ procs' = Append(procs, p_rec)
               /\ UNCHANGED err
          ELSE IF ~q.ran
          THEN /\ Raise("FileNotFoundError: pdftk")
               /\ stdout' = stdout \o p.out
               /\ procs' = Append(procs, p_rec)
          ELSE IF q.rc # 0
          THEN /\ Raise("no pdftk found (required for landscape mode)")
               /\ stdout' = stdout \o p.out \o q.out
               /\ procs' = procs \o <<p_rec, q_rec>>
          ELSE /\ pc' = "download"
               /\ stdout' = stdout \o p.out \o q.out
               /\ procs' = procs \o <<p_rec, q_rec>>
               /\ UNCHANGED err
  /\ UNCHANGED <<landscape, dest, destIsDir, files, main_file, src, outfs, orig>>

\* --------------------------------------------------- download: line 56 to 92
\* is_main_file(file_name)
IsMainFile(content) == \E i \in 1..Len(content) : HasDocumentClass(content[i])

\* main_files
MainFilesOf(fs) == {n \in Glob(fs, ".tex") : IsMainFile(fs[n])}

\* results: the number of records arxiv.query(query, max_results=1) returns;
\* archive: whether the download leaves src.tar.gz in the new directory
Download ==
  /\ pc = "download"
  /\ calls' = Append(calls, "download")
  /\ \E results \in 0..1, archive \in BOOLEAN, tree \in Trees :
       IF results = 0
       THEN /\ Raise("Paper not found")
            /\ UNCHANGED <<files, main_file, orig>>
       ELSE IF ~archive
       THEN /\ Raise("Paper sources are not available")
            /\ UNCHANGED <<files, main_file, orig>>
       ELSE IF Cardinality(MainFilesOf(tree)) # 1
       THEN /\ Raise("AssertionError: len(main_files) == 1")
            /\ files' = tree
            /\ UNCHANGED <<main_file, orig>>
       ELSE /\ pc' = "change_size"
            /\ files' = tree
            /\ main_file' = CHOOSE n \in MainFilesOf(tree) : TRUE
            /\ orig' = tree[CHOOSE n \in MainFilesOf(tree) : TRUE]
            /\ UNCHANGED err
  /\ UNCHANGED <<landscape, dest, destIsDir, src, outfs, stdout, procs>>

\* ----------------------------------------------- change_size: line 95 to 166
\* from the read of the main file to os.rename
ChangeSizeRename ==
  /\ pc = "change_size"
  /\ calls' = Append(calls, "change_size")
  /\ LET r == ChangeSize(files[main_file], GeomSettings(landscape), landscape)
     IN IF r.err # ""
        THEN /\ Raise(r.err)
             /\ UNCHANGED <<files, src>>
        ELSE /\ pc' = "change_size_write"
             /\ files' = RenameFile(files, main_file, WithSuffix(main_file, ".tex.bak"))
             /\ src' = r.src
             /\ UNCHANGED err
  /\ UNCHANGED <<landscape, dest, destIsDir, main_file, outfs, stdout, procs, orig>>

\* open(main_file, 'wt') and f.writelines(src)
ChangeSizeWrite ==
  /\ pc = "change_size_write"
  /\ files' = WriteFile(files, main_file, src)
  /\ src' = <<>>
  /\ pc' = "make_single_column"
  /\ UNCHANGED <<err, landscape, dest, destIsDir, main_file, outfs, stdout, calls,
                 procs, orig>>

\* ------------------------------------------ make_single_column: line 186 to 196
MakeSingleColumn ==
  /\ pc = "make_single_column"
  /\ calls' = Append(calls, "make_single_column")
  /\ files' = MakeSingleColumnFs(files)
  /\ pc' = "compile_tex"
  /\ UNCHANGED <<err, landscape, dest, destIsDir, main_file, src, outfs, stdout,
                 procs, orig>>

\* ------------------------------------------------ compile_tex: line 169 to 174
\* the pdflatex runs so far
Passes == Len(SelectSeq(procs, LAMBDA r : r.cmd = "pdflatex"))

\* One pass of the loop.  pdflatex writes to sys.stderr; it leaves a PDF or
\* not, and exits with any status.
CompilePass ==
  /\ pc = "compile_tex"
  /\ calls' = IF Passes = 0 THEN Append(calls, "compile_tex") ELSE calls
  /\ \E rc \in {0, 1}, wrote \in BOOLEAN :
       /\ procs' = Append(procs, [cmd |-> "pdflatex", rc |-> rc])
       /\ files' = IF wrote
                   THEN WriteFile(files, WithSuffix(main_file, ".pdf"), CompiledPdf)
                   ELSE files
       /\ pc' = CompileLoopPc(Passes + 1, rc, landscape)
  /\ UNCHANGED <<err, landscape, dest, destIsDir, main_file, src, outfs, stdout, orig>>

\* ------------------------------------------------- rotate_pdf: line 177 to 183
RotatePdf ==
  /\ pc = "rotate_pdf"
  /\ calls' = Append(calls, "rotate_pdf")
  /\ LET pdf_file == WithSuffix(main_file, ".pdf")
         bak == WithSuffix(main_file, ".pdf.bak")
     IN IF pdf_file \notin DOMAIN files
        THEN /\ Raise("FileNotFoundError: rename")
             /\ UNCHANGED <<files, procs>>
        ELSE \E rc \in {0, 1}, wrote \in BOOLEAN :
               /\ procs' = Append(procs, [cmd |-> "pdftk", rc |-> rc])
               /\ files' = IF wrote
                           THEN WriteFile(RenameFile(files, pdf_file, bak), pdf_file,
                                          RotatedPdf)
                           ELSE RenameFile(files, pdf_file, bak)
               /\ pc' = "deliver"
               /\ UNCHANGED err
  /\ UNCHANGED <<landscape, dest, destIsDir, main_file, src, outfs, stdout, orig>>

\* -------------------------------------------------------- main: line 227 to 233
\* which of the three branches main takes
DeliveryBranch(d, isdir) ==
  IF isdir THEN "directory" ELSE IF d = "-" THEN "stdout" ELSE "path"

Deliver ==
  /\ pc = "deliver"
  /\ calls' = Append(calls, "deliver")
  /\ LET pdf_file == WithSuffix(main_file, ".pdf")
         branch == DeliveryBranch(dest, destIsDir)
     IN IF pdf_file \notin DOMAIN files
        THEN /\ Raise("FileNotFoundError: pdf")
             /\ UNCHANGED <<files, outfs, stdout>>
        ELSE /\ pc' = "done"
             /\ UNCHANGED err
             /\ CASE branch = "directory" ->
                       /\ outfs' = WriteFile(outfs, <<dest, Title, ".pdf">>, files[pdf_file])
                       /\ files' = [n \in DOMAIN files \ {pdf_file} |-> files[n]]
                       /\ UNCHANGED stdout
                  [] branch = "stdout" ->
                       /\ stdout' = stdout \o <<files[pdf_file]>>
                       /\ UNCHANGED <<files, outfs>>
                  [] OTHER ->
                       /\ outfs' = WriteFile(outfs, <<dest>>, files[pdf_file])
                       /\ files' = [n \in DOMAIN files \ {pdf_file} |-> files[n]]
                       /\ UNCHANGED stdout
  /\ UNCHANGED <<landscape, dest, destIsDir, main_file, src, procs, orig>>

Next ==
  \/ CheckPrerec
  \/ Download
  \/ ChangeSizeRename
  \/ ChangeSizeWrite
  \/ MakeSingleColumn
  \/ CompilePass
  \/ RotatePdf
  \/ Deliver

Spec == Init /\ [][Next]_vars

\* ------------------------------------------------ change_size on its own
\* main has checked the tools and download has returned; the main file is
\* any of RewriteFiles
InitRewrite ==
  /\ pc = "change_size"
  /\ err = ""
  /\ landscape \in BOOLEAN
  /\ dest = "-"
  /\ destIsDir = FALSE
  /\ main_file = ATex
  /\ orig \in RewriteFiles
  /\ files = [n \in {TarGz, ATex} |-> IF n = ATex THEN orig ELSE TarFile]
  /\ src = <<>>
  /\ outfs = NoFiles
  /\ stdout = <<>>
  /\ calls = <<"check_prerec", "download">>
  /\ procs = <<[cmd |-> "pdflatex --version", rc |-> 0]>>
               \o (IF landscape THEN <<[cmd |-> "pdftk --version", rc |-> 0]>> ELSE <<>>)

NextRewrite == ChangeSizeRename \/ ChangeSizeWrite

SpecRewrite == InitRewrite /\ [][NextRewrite]_vars

\* ================================================================ claims
\* the words the three patterns of line 107 to 109 remove
Removable == FontSizeWords \cup ColumnWords \cup PaperWords

BakName == WithSuffix(main_file, ".tex.bak")

\* change_size has completed: the backup and the rewritten main file exist
Written == main_file \in DOMAIN files /\ BakName \in DOMAIN files

\* the rewritten main file
Out == files[main_file]

\* the lines of the original main file that are neither comment nor blank
Surviving == SelectSeq(orig, KeepLine)

\* the number of lines change_size inserts before \begin{document}
Inserted == IF landscape THEN 5 ELSE 4

\* the line of the rewritten file that stems from the i-th surviving line
OutLineOf(i) ==
  LET b == CHOOSE k \in 1..Len(Surviving) : IsBeginDocument(Surviving[k])
  IN Out[IF i < b THEN i ELSE i + Inserted]

\* the options between the brackets of a class line, without the commas
OptsOf(line) ==
  LET a == CHOOSE i \in 1..Len(line) : line[i] = "["
      b == CHOOSE i \in 1..Len(line) : line[i] = "]"
  IN SelectSeq(SubSeq(line, a + 1, b - 1), LAMBDA t : t # ",")

\* ---------------------------------------------------------------------- C1
\* C1: whatever mix of removable options (font size, column, paper size) and
\* unrelated options a \documentclass line has, the rewritten line has
\* exactly the unrelated options, in their order, separated by single
\* commas: no comma after "[", none before "]", no two commas in a row.
\* (Stated for files whose first line is the class line.)
C1_OptionsNormalized ==
  (Written /\ HasDocumentClass(orig[1])) =>
     Out[1] = DclassLine(SelectSeq(OptsOf(orig[1]), LAMBDA w : w \notin Removable))

\* ---------------------------------------------------------------------- C7
\* the removable words of the lines that are not the class line, in order
RemovablesOutsideClassLine(lines) ==
  Flatten([i \in 1..Len(lines) |->
             IF HasDocumentClass(lines[i]) THEN <<>>
             ELSE SelectSeq(lines[i], LAMBDA t : t \in Removable)])

\* C7: also when comment or blank lines precede the class line, the removal
\* of font-size, column and paper-size words hits the \documentclass line
\* and no other: the class line of the rewritten file has none of these
\* words, and every other surviving line keeps all of its own.
C7_OnlyClassLineStripped ==
  Written =>
     /\ \A i \in 1..Len(Out) :
          HasDocumentClass(Out[i]) => \A k \in 1..Len(Out[i]) : Out[i][k] \notin Removable
     /\ RemovablesOutsideClassLine(Out) = RemovablesOutsideClassLine(Surviving)

\* ---------------------------------------------------------------------- C3
\* line has a figure with a scale factor and no figure of another kind
OnlyScaleFigures(line) ==
  /\ \E k \in 1..Len(line) : ScaleMatchAt(line, k)
  /\ \A k \in 1..Len(line) : ~WidthMatchAt(line, k) /\ ~BareMatchAt(line, k)

\* new is old with nothing changed but each scale factor, which is halved
ScalesHalved(old, new) ==
  /\ Len(new) = Len(old)
  /\ \A k \in 1..Len(old) :
       IF k > 3 /\ ScaleMatchAt(old, k - 3)
       THEN FloatOf(new[k]) >= 0 /\ 2 * FloatOf(new[k]) = FloatOf(old[k])
       ELSE new[k] = old[k]

\* C3: a line with \includegraphics[scale=s]{...} is rewritten to
\* \includegraphics[scale=s/2]{...}: the factor halved, the option still
\* between a plain "[" and "]", the rest of the line unchanged.
C3_ScaleHalved ==
  Written =>
     \A i \in 1..Len(Surviving) :
        OnlyScaleFigures(Surviving[i]) => ScalesHalved(Surviving[i], OutLineOf(i))

\* ---------------------------------------------------------------------- C4
\* line with every [width=f\linewidth] or [width=f\textwidth] figure
\* rewritten with its own fraction f
RECURSIVE EachWidthCapped(_, _)
EachWidthCapped(line, i) ==
  IF i > Len(line) THEN <<>>
  ELSE IF WidthMatchAt(line, i)
  THEN <<"\\includegraphics", "[", "width=", line[i+3], "\\textwidth", ",",
         "height=", line[i+3], "\\textheight", ",", "keepaspectratio", "]">>
         \o EachWidthCapped(line, i + 6)
  ELSE <<line[i]>> \o EachWidthCapped(line, i + 1)

\* C4: every figure given as [width=f\linewidth] or [width=f\textwidth]
\* becomes [width=f\textwidth,height=f\textheight,keepaspectratio] with its
\* own f, also when one line has several such figures with different f.
C4_WidthCappedPerFigure ==
  Written =>
     \A i \in 1..Len(Surviving) :
        (\E k \in 1..Len(Surviving[i]) : WidthMatchAt(Surviving[i], k))
          => OutLineOf(i) = EachWidthCapped(Surviving[i], 1)

\* ---------------------------------------------------------------------- C8
\* the lines of the rewritten file right above its \begin{document} line
AboveBeginDocument ==
  LET b == CHOOSE k \in 1..Len(Out) : IsBeginDocument(Out[k])
  IN SubSeq(Out, b - Inserted, b - 1)

\* the geometry line main asks for: the default 4in x 6in page with 0.2in
\* margins, width and height swapped and ",landscape" added in landscape
ExpectedGeometryLine ==
  IF landscape
  THEN <<"\\usepackage", "[", "paperwidth", "=", "6in", ",", "paperheight", "=", "4in",
         ",", "margin", "=", "0.2in", ",", "landscape", "]", "{", "geometry", "}", "\n">>
  ELSE <<"\\usepackage", "[", "paperwidth", "=", "4in", ",", "paperheight", "=", "6in",
         ",", "margin", "=", "0.2in", "]", "{", "geometry", "}", "\n">>

\* C8 as stated: above \begin{document} stand, top to bottom, \pagestyle{empty},
\* breqn, times, the geometry line and, in landscape only, pdflscape last.
C8_OrderAsStated ==
  Written =>
     /\ Cardinality({k \in 1..Len(Out) : IsBeginDocument(Out[k])}) = 1
     /\ AboveBeginDocument =
          <<PagestyleLine, BreqnLine, TimesLine, ExpectedGeometryLine>>
            \o (IF landscape THEN <<PdflscapeLine>> ELSE <<>>)

\* C8 amended: above \begin{document} stand, top to bottom, pdflscape (in
\* landscape only), breqn, \pagestyle{empty}, times and the geometry line;
\* without landscape the file has no pdflscape line.
C8_InsertOrder ==
  Written =>
     /\ Cardinality({k \in 1..Len(Out) : IsBeginDocument(Out[k])}) = 1
     /\ AboveBeginDocument =
          (IF landscape THEN <<PdflscapeLine>> ELSE <<>>)
            \o <<BreqnLine, PagestyleLine, TimesLine, ExpectedGeometryLine>>
     /\ ~landscape => \A i \in 1..Len(Out) : Out[i] # PdflscapeLine

\* a landscape rewrite has completed
C8_Witness == Written /\ landscape /\ pc = "make_single_column"

\* --------------------------------------------------------------------- C10
\* C10: change_size never loses the original main file.  If it aborts, the
\* main file still has its original content and there is no .tex.bak; once
\* it has renamed, the .tex.bak has the original content, and the main file
\* name holds nothing until the transformed lines are written to it; when it
\* has completed, the .tex.bak has the original content and the main file
\* the transformed lines.
C10_OriginalKept ==
  /\ pc = "error" =>
       /\ BakName \notin DOMAIN files
       /\ main_file \in DOMAIN files /\ files[main_file] = orig
  /\ pc = "change_size_write" =>
       /\ BakName \in DOMAIN files /\ files[BakName] = orig
       /\ main_file \notin DOMAIN files
  /\ pc = "make_single_column" =>
       /\ BakName \in DOMAIN files /\ files[BakName] = orig
       /\ main_file \in DOMAIN files
       /\ files[main_file] = ChangeSize(orig, GeomSettings(landscape), landscape).src

\* change_size has aborted on the count of \begin{document} lines
C10_Witness ==
  /\ pc = "error"
  /\ err = "AssertionError: len(begindocs) == 1"
  /\ calls[Len(calls)] = "change_size"
  /\ files[main_file] = orig

\* ---------------------------------------------------------------------- C5
\* the exit statuses of the pdflatex passes, in order
PassStatuses ==
  LET runs == SelectSeq(procs, LAMBDA r : r.cmd = "pdflatex")
  IN [i \in 1..Len(runs) |-> runs[i].rc]

\* C5: compile_tex runs pdflatex three times whatever the exit statuses:
\* after one or two passes the run is still in compile_tex (neither ended
\* nor gone on), main goes on only after the third pass, and there is never
\* a fourth.
C5_ThreePasses ==
  /\ Len(PassStatuses) <= 3
  /\ Len(PassStatuses) \in {1, 2} => pc = "compile_tex"
  /\ (Len(calls) > 0 /\ calls[Len(calls)] \in {"rotate_pdf", "deliver"})
       => Len(PassStatuses) = 3
  /\ (pc \in {"rotate_pdf", "deliver", "done"}) => Len(PassStatuses) = 3

\* the run has gone on to delivery although the first two passes failed
C5_Witness ==
  /\ pc = "done"
  /\ Len(PassStatuses) = 3
  /\ PassStatuses[1] # 0
  /\ PassStatuses[2] # 0

\* ---------------------------------------------------------------------- C9
\* the stages of main in the order of lines 210 to 233
StageOrder ==
  <<"check_prerec", "download", "change_size", "make_single_column", "compile_tex">>
    \o (IF landscape THEN <<"rotate_pdf">> ELSE <<>>) \o <<"deliver">>

Ran(cmd) == \E i \in 1..Len(procs) : procs[i].cmd = cmd

\* C9: the stages run in the order check_prerec, download, change_size,
\* make_single_column, compile_tex, rotate_pdf, delivery, each at most once
\* and each after the one before it has finished; nothing is downloaded or
\* changed before the precondition check; rotate_pdf and the pdftk check run
\* only in landscape mode, and in landscape mode the pdftk check is part of
\* every precondition check that finds pdflatex and rotate_pdf part of every
\* run that gets to delivery.
C9_StagesInOrder ==
  /\ calls = SubSeq(StageOrder, 1, Len(calls))
  /\ Len(calls) <= Len(StageOrder)
  /\ calls = <<>> => (files = NoFiles /\ outfs = NoFiles /\ procs = <<>>)
  /\ (Len(calls) >= 2) => procs[1] = [cmd |-> "pdflatex --version", rc |-> 0]
  /\ (Len(calls) >= 4) => Written
  /\ (Len(calls) >= 6) => Len(PassStatuses) = 3
  /\ (Ran("pdftk --version") \/ Ran("pdftk")) => landscape
  /\ (landscape /\ Len(calls) >= 2) => procs[2] = [cmd |-> "pdftk --version", rc |-> 0]
  /\ pc = "done" => calls = StageOrder

\* a landscape run has delivered
C9_Witness == pc = "done" /\ landscape /\ Ran("pdftk")

\* ---------------------------------------------------------------------- C2
IsPdf(content) == content \in {CompiledPdf, RotatedPdf}

\* the PDF content that has been written to the standard output
PdfOnStdout == SelectSeq(stdout, IsPdf)

\* C2: delivery does exactly one of three things.  With dest "-" the PDF
\* bytes go to the standard output and no file is moved, whatever the file
\* system holds; with any other dest that is an existing directory the PDF
\* is moved to dest/<title>.pdf; otherwise it is moved to dest.
C2_DeliveryByDest ==
  pc = "done" =>
    LET pdf_file == WithSuffix(main_file, ".pdf")
    IN IF dest = "-"
       THEN /\ outfs = NoFiles
            /\ pdf_file \in DOMAIN files
            /\ PdfOnStdout = <<files[pdf_file]>>
       ELSE IF destIsDir
       THEN /\ DOMAIN outfs = {<<dest, Title, ".pdf">>}
            /\ IsPdf(outfs[<<dest, Title, ".pdf">>])
            /\ PdfOnStdout = <<>>
       ELSE /\ DOMAIN outfs = {<<dest>>}
            /\ IsPdf(outfs[<<dest>>])
            /\ PdfOnStdout = <<>>

\* ---------------------------------------------------------------------- C6
\* the errors the code detects, each with the stage that raises it
DetectedErrors ==
  {"FileNotFoundError: pdflatex", "no pdflatex found", "FileNotFoundError: pdftk",
   "no pdftk found (required for landscape mode)", "Paper not found",
   "Paper sources are not available", "AssertionError: len(main_files) == 1",
   "AssertionError: len(begindocs) == 1"}

StageOfError(e) ==
  IF e \in {"Paper not found", "Paper sources are not available",
            "AssertionError: len(main_files) == 1"}
  THEN "download"
  ELSE IF e = "AssertionError: len(begindocs) == 1" THEN "change_size"
  ELSE "check_prerec"

\* C6: when a detected error occurs (a tool cannot be invoked, no paper, no
\* source archive, not exactly one main file, not exactly one
\* \begin{document}) the run ends there: no later stage has run, no stage
\* has run twice, and nothing has been written to dest or to the standard
\* output.
C6_AbortLeavesNoOutput ==
  (pc = "error" /\ err \in DetectedErrors) =>
     /\ calls = SubSeq(StageOrder, 1, Len(calls))
     /\ calls[Len(calls)] = StageOfError(err)
     /\ outfs = NoFiles
     /\ stdout = <<>>

\* What holds of C6: the run ends in the stage that detects the error, no
\* stage has run twice, nothing is at dest and no PDF on the standard output.
AbortRunsNoLaterStage ==
  (pc = "error" /\ err \in DetectedErrors) =>
     /\ calls = SubSeq(StageOrder, 1, Len(calls))
     /\ calls[Len(calls)] = StageOfError(err)
     /\ outfs = NoFiles
     /\ PdfOnStdout = <<>>

====
